---- MODULE Spec2Model ----
(***************************************************************************)
(* Model of the public-api crate: the diff engine,                         *)
(* PublicItemsDiff::between (public-api/src/diff.rs), under Spec, and the  *)
(* renderer (public-api/src/render.rs) with the parse boundary, under      *)
(* SpecRender.                                                             *)
(*                                                                         *)
(* In the diff engine a String is a sequence of character codes, a path   *)
(* is a sequence of Strings, a Token is a record of a tag rank and a       *)
(* text, a PublicItem is a record of a path and a token sequence.          *)
(* Vectors are sequences whose last element is the one Vec::pop returns.   *)
(***************************************************************************)
EXTENDS Integers, Sequences, FiniteSets, TLC

\* Longest input vector handed to between.
MaxLen == 3

\* Most items the two input vectors hold together.
MaxItems == 6

(***************************************************************************)
(* Orderings.  std::cmp::Ordering is "Less" / "Equal" / "Greater".         *)
(***************************************************************************)

\* String comparison: lexicographic over the character codes.
RECURSIVE CmpStr(_, _)
CmpStr(a, b) ==
    IF a = <<>> THEN (IF b = <<>> THEN "Equal" ELSE "Less")
    ELSE IF b = <<>> THEN "Greater"
    ELSE IF Head(a) < Head(b) THEN "Less"
    ELSE IF Head(a) > Head(b) THEN "Greater"
    ELSE CmpStr(Tail(a), Tail(b))

\* Vec<String> comparison: lexicographic over the segments.
RECURSIVE CmpPath(_, _)
CmpPath(p, q) ==
    IF p = <<>> THEN (IF q = <<>> THEN "Equal" ELSE "Less")
    ELSE IF q = <<>> THEN "Greater"
    ELSE LET c == CmpStr(Head(p), Head(q))
         IN  IF c # "Equal" THEN c ELSE CmpPath(Tail(p), Tail(q))

\* Token comparison: by tag rank, then by text.
CmpToken(s, t) ==
    IF s.tag < t.tag THEN "Less"
    ELSE IF s.tag > t.tag THEN "Greater"
    ELSE CmpStr(s.text, t.text)

\* Vec<Token> comparison: elementwise.
RECURSIVE CmpTokens(_, _)
CmpTokens(s, t) ==
    IF s = <<>> THEN (IF t = <<>> THEN "Equal" ELSE "Less")
    ELSE IF t = <<>> THEN "Greater"
    ELSE LET c == CmpToken(Head(s), Head(t))
         IN  IF c # "Equal" THEN c ELSE CmpTokens(Tail(s), Tail(t))

\* The Public Item order: path first, then tokens.
CmpItem(x, y) ==
    LET c == CmpPath(x.path, y.path)
    IN  IF c # "Equal" THEN c ELSE CmpTokens(x.tokens, y.tokens)

\* derive(Ord) on ChangedPublicItem: field old, then field new.
CmpChanged(c, d) ==
    LET r == CmpItem(c.old, d.old)
    IN  IF r # "Equal" THEN r ELSE CmpItem(c.new, d.new)

(***************************************************************************)
(* Vec::sort, as the sorted rearrangement of the vector (insertion of the  *)
(* elements one by one; elements that compare Equal keep their order).     *)
(***************************************************************************)

RECURSIVE InsertItem(_, _)
InsertItem(s, x) ==
    IF s = <<>> THEN <<x>>
    ELSE IF CmpItem(x, Head(s)) = "Less" THEN <<x>> \o s
    ELSE <<Head(s)>> \o InsertItem(Tail(s), x)

RECURSIVE SortItems(_)
SortItems(s) ==
    IF s = <<>> THEN <<>>
    ELSE InsertItem(SortItems(SubSeq(s, 1, Len(s) - 1)), s[Len(s)])

RECURSIVE InsertChanged(_, _)
InsertChanged(s, x) ==
    IF s = <<>> THEN <<x>>
    ELSE IF CmpChanged(x, Head(s)) = "Less" THEN <<x>> \o s
    ELSE <<Head(s)>> \o InsertChanged(Tail(s), x)

RECURSIVE SortChanged(_)
SortChanged(s) ==
    IF s = <<>> THEN <<>>
    ELSE InsertChanged(SortChanged(SubSeq(s, 1, Len(s) - 1)), s[Len(s)])

(***************************************************************************)
(* The items the inputs are drawn from.                                    *)
(***************************************************************************)

Token(tag, text) == [tag |-> tag, text |-> text]

PublicItem(path, tokens) == [path |-> path, tokens |-> tokens]

\* Strings "1", "2" and "12".
Str1 == <<1>>
Str2 == <<2>>
Str12 == <<1, 2>>

\* Paths "1", "1::2" and "12": a path, a path it is a prefix of, and a path
\* whose first segment has the first one's segment as a prefix.
Path1 == <<Str1>>
Path1_2 == <<Str1, Str2>>
Path12 == <<Str12>>

\* Three renderings that differ in the tag, the text and the length.
TokensA == <<Token(1, Str1)>>
TokensB == <<Token(1, Str1), Token(2, Str1)>>
TokensC == <<Token(2, Str1)>>

\* The items, in an order that is not the sorted one.
ItemSeq ==
    << PublicItem(Path1_2, TokensA), PublicItem(Path1, TokensC),
       PublicItem(Path12, TokensB), PublicItem(Path1, TokensA),
       PublicItem(Path1, TokensB) >>

Items == { ItemSeq[i] : i \in DOMAIN ItemSeq }

ItemVecs == UNION { [1..n -> Items] : n \in 0..MaxLen }

(***************************************************************************)
(* PublicItemsDiff::between.  The loop state is a record: os and ns are    *)
(* old_sorted and new_sorted, removed / changed / added are the three      *)
(* output vectors, dropped (not in the program) records the pairs the      *)
(* Equal arm discards.                                                     *)
(***************************************************************************)

Top(v) == v[Len(v)]

Pop(v) == SubSeq(v, 1, Len(v) - 1)

ChangedPublicItem(old, new) == [old |-> old, new |-> new]

SortedInput_Unsorted(items) == items

\* Vec::dedup: of every run of equal neighbours the first is kept.
RECURSIVE Dedup(_)
Dedup(v) ==
    IF Len(v) <= 1 THEN v
    ELSE IF v[1] = v[2] THEN Dedup(Tail(v))
    ELSE <<v[1]>> \o Dedup(Tail(v))

\* The items are sorted and equal items are collapsed into one.
SortedInput_Dedup(items) == Dedup(SortItems(items))

\* old_sorted.sort() and new_sorted.sort().
SortedInput(items) == SortItems(items)

SortedOutput_Unsorted(items) == items

\* removed.sort() and added.sort().
SortedOutput(items) == SortItems(items)

\* changed.sort().
SortedChangedOutput(pairs) == SortChanged(pairs)

IsChanged_PathOnly(old, new) == old.path = new.path

IsChanged_AnyDifference(old, new) == old # new

IsChanged_Never(old, new) == FALSE

\* old != new && old.path == new.path
IsChanged(old, new) == old # new /\ old.path = new.path

\* The arm of the two matches that one iteration of the loop takes.
MatchArm(os, ns) ==
    IF os = <<>> /\ ns = <<>> THEN "Break"
    ELSE IF ns = <<>> THEN "OnlyOld"
    ELSE IF os = <<>> THEN "OnlyNew"
    ELSE IF IsChanged(Top(os), Top(ns)) THEN "Changed"
    ELSE CmpItem(Top(os), Top(ns))

\* (Some(old), None)
ArmOnlyOld(st) ==
    [st EXCEPT !.os = Pop(st.os),
               !.removed = Append(st.removed, Top(st.os))]

\* (None, Some(new))
ArmOnlyNew(st) ==
    [st EXCEPT !.ns = Pop(st.ns),
               !.added = Append(st.added, Top(st.ns))]

\* (Some(old), Some(new)), the same path and a different item
ArmChanged(st) ==
    [st EXCEPT !.os = Pop(st.os),
               !.ns = Pop(st.ns),
               !.changed = Append(st.changed,
                                  ChangedPublicItem(Top(st.os), Top(st.ns)))]

ArmLess_NoPushBack(st) ==
    [st EXCEPT !.os = Pop(st.os),
               !.ns = Pop(st.ns),
               !.added = Append(st.added, Top(st.ns))]

\* Both popped items are pushed back.
ArmLess_PushBoth(st) ==
    [st EXCEPT !.os = Append(Pop(st.os), Top(st.os)),
               !.ns = Append(Pop(st.ns), Top(st.ns)),
               !.added = Append(st.added, Top(st.ns))]

\* Ordering::Less: new is added, old is pushed back.
ArmLess(st) ==
    [st EXCEPT !.os = Append(Pop(st.os), Top(st.os)),
               !.ns = Pop(st.ns),
               !.added = Append(st.added, Top(st.ns))]

\* Ordering::Equal: both are dropped.
ArmEqual(st) ==
    [st EXCEPT !.os = Pop(st.os),
               !.ns = Pop(st.ns),
               !.dropped = Append(st.dropped,
                                  ChangedPublicItem(Top(st.os), Top(st.ns)))]

ArmGreater_NoPushBack(st) ==
    [st EXCEPT !.os = Pop(st.os),
               !.ns = Pop(st.ns),
               !.removed = Append(st.removed, Top(st.os))]

\* Ordering::Greater: old is removed, new is pushed back.
ArmGreater(st) ==
    [st EXCEPT !.os = Pop(st.os),
               !.ns = Append(Pop(st.ns), Top(st.ns)),
               !.removed = Append(st.removed, Top(st.os))]

\* One iteration of the loop that does not break.
LoopBody(st) ==
    LET arm == MatchArm(st.os, st.ns)
    IN  CASE arm = "OnlyOld" -> ArmOnlyOld(st)
          [] arm = "OnlyNew" -> ArmOnlyNew(st)
          [] arm = "Changed" -> ArmChanged(st)
          [] arm = "Less"    -> ArmLess(st)
          [] arm = "Equal"   -> ArmEqual(st)
          [] arm = "Greater" -> ArmGreater(st)

\* The loop, run until it breaks.
RECURSIVE RunLoop(_)
RunLoop(st) ==
    IF MatchArm(st.os, st.ns) = "Break" THEN st ELSE RunLoop(LoopBody(st))

\* The value between returns for two input vectors.
between(old_items_vec, new_items_vec) ==
    LET st == RunLoop([os |-> SortedInput(old_items_vec),
                       ns |-> SortedInput(new_items_vec),
                       removed |-> <<>>, changed |-> <<>>, added |-> <<>>,
                       dropped |-> <<>>])
    IN  [removed |-> SortedOutput(st.removed),
         changed |-> SortedChangedOutput(st.changed),
         added   |-> SortedOutput(st.added)]

(***************************************************************************)
(* One call of between, a statement at a time.                             *)
(***************************************************************************)

\* The multiset of the elements of a vector: the number of copies of each
\* item.
BagOf(v) == [x \in Items |-> Cardinality({i \in DOMAIN v : v[i] = x})]

\* iterations (not in the program) counts the passes through the loop body.
\* call and output belong to the renderer: the function called with its
\* arguments, and the tokens it returned.
\* invocations holds the locals of the calls of between that run side by
\* side, one record a call; it is empty while one call is followed alone.
VARIABLES old_sorted, new_sorted, removed, changed, added, dropped,
          old_items, new_items, pc, iterations, call, output, invocations

vars == <<old_sorted, new_sorted, removed, changed, added, dropped,
          old_items, new_items, pc, iterations, call, output, invocations>>

\* No renderer call is in progress.
NoCall == [fn |-> "none"]

\* The loop state held in the variables.
Cur ==
    [os |-> old_sorted, ns |-> new_sorted, removed |-> removed,
     changed |-> changed, added |-> added, dropped |-> dropped]

Install(st) ==
    /\ old_sorted' = st.os
    /\ new_sorted' = st.ns
    /\ removed' = st.removed
    /\ changed' = st.changed
    /\ added' = st.added
    /\ dropped' = st.dropped

\* The call: the two vectors are moved into old_sorted and new_sorted, the
\* outputs are empty.  old_items and new_items keep the multisets passed in.
Init ==
    /\ old_sorted \in ItemVecs
    /\ new_sorted \in ItemVecs
    /\ Len(old_sorted) + Len(new_sorted) <= MaxItems
    /\ removed = <<>>
    /\ changed = <<>>
    /\ added = <<>>
    /\ dropped = <<>>
    /\ old_items = BagOf(old_sorted)
    /\ new_items = BagOf(new_sorted)
    /\ pc = "sort"
    /\ iterations = 0
    /\ call = NoCall
    /\ output = <<>>
    /\ invocations = <<>>

SortInputs ==
    /\ pc = "sort"
    /\ old_sorted' = SortedInput(old_sorted)
    /\ new_sorted' = SortedInput(new_sorted)
    /\ pc' = "loop"
    /\ UNCHANGED <<removed, changed, added, dropped, old_items, new_items,
                   iterations, call, output,
                   invocations>>

Break ==
    /\ pc = "loop"
    /\ MatchArm(old_sorted, new_sorted) = "Break"
    /\ pc' = "sort_outputs"
    /\ iterations' = iterations + 1
    /\ UNCHANGED <<old_sorted, new_sorted, removed, changed, added, dropped,
                   old_items, new_items, call, output,
                   invocations>>

OnlyOld ==
    /\ pc = "loop"
    /\ MatchArm(old_sorted, new_sorted) = "OnlyOld"
    /\ Install(ArmOnlyOld(Cur))
    /\ iterations' = iterations + 1
    /\ UNCHANGED <<old_items, new_items, pc, call, output,
                   invocations>>

OnlyNew ==
    /\ pc = "loop"
    /\ MatchArm(old_sorted, new_sorted) = "OnlyNew"
    /\ Install(ArmOnlyNew(Cur))
    /\ iterations' = iterations + 1
    /\ UNCHANGED <<old_items, new_items, pc, call, output,
                   invocations>>

Changed ==
    /\ pc = "loop"
    /\ MatchArm(old_sorted, new_sorted) = "Changed"
    /\ Install(ArmChanged(Cur))
    /\ iterations' = iterations + 1
    /\ UNCHANGED <<old_items, new_items, pc, call, output,
                   invocations>>

Less ==
    /\ pc = "loop"
    /\ MatchArm(old_sorted, new_sorted) = "Less"
    /\ Install(ArmLess(Cur))
    /\ iterations' = iterations + 1
    /\ UNCHANGED <<old_items, new_items, pc, call, output,
                   invocations>>

Equal ==
    /\ pc = "loop"
    /\ MatchArm(old_sorted, new_sorted) = "Equal"
    /\ Install(ArmEqual(Cur))
    /\ iterations' = iterations + 1
    /\ UNCHANGED <<old_items, new_items, pc, call, output,
                   invocations>>

Greater ==
    /\ pc = "loop"
    /\ MatchArm(old_sorted, new_sorted) = "Greater"
    /\ Install(ArmGreater(Cur))
    /\ iterations' = iterations + 1
    /\ UNCHANGED <<old_items, new_items, pc, call, output,
                   invocations>>

SortOutputs ==
    /\ pc = "sort_outputs"
    /\ removed' = SortedOutput(removed)
    /\ changed' = SortedChangedOutput(changed)
    /\ added' = SortedOutput(added)
    /\ pc' = "done"
    /\ UNCHANGED <<old_sorted, new_sorted, dropped, old_items, new_items,
                   iterations, call, output,
                   invocations>>

Next ==
    \/ SortInputs
    \/ Break
    \/ OnlyOld
    \/ OnlyNew
    \/ Changed
    \/ Less
    \/ Equal
    \/ Greater
    \/ SortOutputs

Spec == Init /\ [][Next]_vars

TypeOK ==
    /\ pc \in {"sort", "loop", "sort_outputs", "done"}
    /\ Len(old_sorted) <= MaxLen
    /\ Len(new_sorted) <= MaxLen
    /\ Len(old_sorted) + Len(new_sorted) + Len(removed) + Len(added)
         + 2 * Len(changed) + 2 * Len(dropped) <= MaxItems

(***************************************************************************)
(* Vocabulary of the properties.                                           *)
(***************************************************************************)

OldSides(pairs) == [i \in DOMAIN pairs |-> pairs[i].old]

NewSides(pairs) == [i \in DOMAIN pairs |-> pairs[i].new]

Swapped(pairs) ==
    [i \in DOMAIN pairs |-> ChangedPublicItem(pairs[i].new, pairs[i].old)]

BagSum(a, b) == [x \in Items |-> a[x] + b[x]]

Min(m, n) == IF m <= n THEN m ELSE n

\* What is left of bag a when the items it has in common with b are taken
\* out of it.
BagWithoutCommon(a, b) == [x \in Items |-> a[x] - Min(a[x], b[x])]

\* The paths that occur in a bag.
PathsOf(b) == { x.path : x \in { y \in Items : b[y] > 0 } }

IsSortedItems(v) ==
    \A i, j \in DOMAIN v : i < j => CmpItem(v[i], v[j]) # "Greater"

IsSortedChanged(v) ==
    \A i, j \in DOMAIN v : i < j => CmpChanged(v[i], v[j]) # "Greater"

\* The value returned, once the call is done.
Result == [removed |-> removed, changed |-> changed, added |-> added]

(***************************************************************************)
(* Properties of between.                                                  *)
(***************************************************************************)

\* C1: conservation.  In every state of a call, the items still on the old
\* stack, those in removed, the old sides of changed and the old items
\* dropped as equal are together exactly the old input, copy for copy; the
\* same for the new stack, added, the new sides of changed and the new items
\* dropped, against the new input.
Thm_C1 ==
    /\ BagOf(old_sorted \o removed \o OldSides(changed) \o OldSides(dropped))
         = old_items
    /\ BagOf(new_sorted \o added \o NewSides(changed) \o NewSides(dropped))
         = new_items

Wit_C1 ==
    /\ pc = "loop"
    /\ old_sorted # <<>>
    /\ removed # <<>>
    /\ added # <<>>
    /\ dropped # <<>>

\* C2: in the result, removed with the old sides of changed is the old input
\* minus the items the two inputs have in common, and added with the new
\* sides of changed is the new input minus those common items.
Cex_C2 ==
    pc = "done" =>
        /\ BagSum(BagOf(removed), BagOf(OldSides(changed)))
             = BagWithoutCommon(old_items, new_items)
        /\ BagSum(BagOf(added), BagOf(NewSides(changed)))
             = BagWithoutCommon(new_items, old_items)

\* C3: idempotence.  When the two inputs hold the same items, in whatever
\* order each was passed, removed, changed and added come out empty.
Thm_C3 ==
    (pc = "done" /\ old_items = new_items) =>
        /\ removed = <<>>
        /\ changed = <<>>
        /\ added = <<>>

Wit_C3 ==
    /\ pc = "done"
    /\ old_items = new_items
    /\ \E i, j \in DOMAIN dropped :
          /\ dropped[i].old.path = dropped[j].old.path
          /\ dropped[i].old # dropped[j].old
    /\ \E i, j \in DOMAIN dropped : dropped[i].old.path # dropped[j].old.path

RECURSIVE Copies(_, _)
Copies(x, n) == IF n = 0 THEN <<>> ELSE <<x>> \o Copies(x, n - 1)

RECURSIVE VecFrom(_, _)
VecFrom(b, k) ==
    IF k = 0 THEN <<>>
    ELSE VecFrom(b, k - 1) \o Copies(ItemSeq[k], b[ItemSeq[k]])

\* One vector that holds a bag's items: the copies of each item, the items
\* in the order of ItemSeq.
VecOf(b) == VecFrom(b, Len(ItemSeq))

\* C4: order independence.  In whatever order the old items and the new
\* items were passed, the value returned is the one between returns for one
\* fixed order of the same items; so any two orders give the same value.
Thm_C4 ==
    pc = "done" => Result = between(VecOf(old_items), VecOf(new_items))

Wit_C4 ==
    /\ pc = "done"
    /\ Cardinality(PathsOf(old_items)) >= 2
    /\ Cardinality(PathsOf(new_items)) >= 2
    /\ removed # <<>>
    /\ changed # <<>>
    /\ added # <<>>

Thm_C6 ==
    \A i \in DOMAIN changed :
        /\ changed[i].old.path = changed[i].new.path
        /\ changed[i].old.tokens # changed[i].new.tokens

Wit_C6 ==
    /\ Len(changed) >= 2
    /\ changed[1].old.path = changed[2].old.path
    /\ changed[1] # changed[2]
    /\ Cardinality(PathsOf(old_items) \cup PathsOf(new_items)) >= 2

\* The items of a bag, and whether no two copies in it share a path.
ItemsOf(b) == { x \in Items : b[x] > 0 }

UniquePaths(b) ==
    /\ \A x \in Items : b[x] <= 1
    /\ \A x, y \in ItemsOf(b) : x.path = y.path => x = y

Range(v) == { v[i] : i \in DOMAIN v }

SubBag(b, a) == \A x \in Items : b[x] <= a[x]

BagDiff(a, b) == [x \in Items |-> a[x] - b[x]]

\* Bag a is bag b with extra items whose paths do not occur in b.
IsInsertion(b, a) ==
    /\ SubBag(b, a)
    /\ \A x \in Items : a[x] > b[x] => x.path \notin PathsOf(b)

\* C8: insertion.  When new is old with extra items whose paths old lacks,
\* removed and changed are empty and added holds the extra items, sorted.
Thm_C8 ==
    (pc = "done" /\ IsInsertion(old_items, new_items)) =>
        /\ removed = <<>>
        /\ changed = <<>>
        /\ BagOf(added) = BagDiff(new_items, old_items)
        /\ IsSortedItems(added)

\* An extra item in the middle: an old item sorts below it and another
\* above it.
Wit_C8 ==
    /\ pc = "done"
    /\ IsInsertion(old_items, new_items)
    /\ \E e \in Range(added) :
          /\ \E o \in ItemsOf(old_items) : CmpItem(o, e) = "Less"
          /\ \E o \in ItemsOf(old_items) : CmpItem(o, e) = "Greater"

\* C9: deletion.  When old is new with extra items whose paths new lacks,
\* added and changed are empty and removed holds the extra items, sorted.
Thm_C9 ==
    (pc = "done" /\ IsInsertion(new_items, old_items)) =>
        /\ added = <<>>
        /\ changed = <<>>
        /\ BagOf(removed) = BagDiff(old_items, new_items)
        /\ IsSortedItems(removed)

Wit_C9 ==
    /\ pc = "done"
    /\ IsInsertion(new_items, old_items)
    /\ \E e \in Range(removed) :
          /\ \E n \in ItemsOf(new_items) : CmpItem(n, e) = "Less"
          /\ \E n \in ItemsOf(new_items) : CmpItem(n, e) = "Greater"

\* C10: symmetry.  With the two inputs exchanged, between returns the same
\* value with removed and added exchanged and the two sides of every pair
\* of changed exchanged, the pairs in the same order.
Thm_C10 ==
    pc = "done" =>
        LET r == between(VecOf(new_items), VecOf(old_items))
        IN  /\ r.removed = added
            /\ r.added = removed
            /\ r.changed = Swapped(changed)

Wit_C10 ==
    /\ pc = "done"
    /\ Len(changed) >= 2
    /\ changed[1].old # changed[2].old
    /\ changed[1].new = changed[2].new
    /\ removed # <<>>

\* The items left on the two stacks.
StackTotal == Len(old_sorted) + Len(new_sorted)

\* The number of items a bag holds.
BagSize(b) == Len(VecOf(b))

\* C11: termination.  Every pass through the loop body other than the last
\* one (both stacks empty) leaves strictly fewer items on the two stacks
\* than it found, and the loop body is never entered more than n + m + 1
\* times, n and m being the numbers of old and of new items.
Thm_C11 ==
    [][/\ (iterations' = iterations + 1
            /\ MatchArm(old_sorted, new_sorted) # "Break")
           => StackTotal' < StackTotal
       /\ iterations' <= BagSize(old_items) + BagSize(new_items) + 1]_vars

Wit_C11 ==
    /\ pc = "done"
    /\ iterations = BagSize(old_items) + BagSize(new_items) + 1
    /\ BagSize(old_items) >= 2
    /\ BagSize(new_items) >= 2
    /\ removed # <<>>
    /\ added # <<>>

Max(m, n) == IF m >= n THEN m ELSE n

\* No other item of either input has the path of x.
AloneOnPath(x) ==
    \A y \in Items :
        (old_items[y] + new_items[y] > 0 /\ y.path = x.path) => y = x

\* C12: duplicate safety.  When x occurs k times among the old items and j
\* times among the new items and no other item of either input has its
\* path, the result holds max(0, k - j) copies of x in removed,
\* max(0, j - k) copies in added and no pair of changed with the path of x.
Thm_C12 ==
    pc = "done" =>
        \A x \in Items :
            AloneOnPath(x) =>
                /\ BagOf(removed)[x] = Max(0, old_items[x] - new_items[x])
                /\ BagOf(added)[x] = Max(0, new_items[x] - old_items[x])
                /\ \A i \in DOMAIN changed :
                      /\ changed[i].old.path # x.path
                      /\ changed[i].new.path # x.path

Wit_C12 ==
    /\ pc = "done"
    /\ added # <<>>
    /\ \E x \in Items :
          /\ AloneOnPath(x)
          /\ old_items[x] = 3
          /\ new_items[x] = 1
          /\ BagOf(removed)[x] = 2

(***************************************************************************)
(* The renderer (public-api/src/render.rs).  Here a String is a TLA+       *)
(* string and a Token is Token(tag, text) with the name of the tag.  The   *)
(* rustdoc types are records: field t names the variant, the other fields  *)
(* are the variant's own.                                                  *)
(***************************************************************************)

\* Longest list (parameters, arguments, bounds, predicates, tuple elements)
\* handed to the renderer.
MaxList == 2

None == [some |-> FALSE]

Some(v) == [some |-> TRUE, v |-> v]

qualifier(text) == Token("Qualifier", text)

kind(text) == Token("Kind", text)

identifier(text) == Token("Identifier", text)

type_(text) == Token("Type", text)

function(text) == Token("Function", text)

generic(text) == Token("Generic", text)

lifetime(text) == Token("Lifetime", text)

primitive(text) == Token("Primitive", text)

keyword(text) == Token("Keyword", text)

symbol(text) == Token("Symbol", text)

self_(text) == Token("Self_", text)

\* ws!()
ws == Token("Whitespace", " ")

plus == <<ws, symbol("+"), ws>>

colon == <<symbol(":"), ws>>

comma_NoSpace == <<symbol(",")>>

comma == <<symbol(","), ws>>

equals == <<ws, symbol("="), ws>>

arrow == <<ws, symbol("->"), ws>>

\* A panic unwinds the whole call.  The model writes the token Unwind where
\* the panic is raised; every caller appends what its callees return, so a
\* call has unwound exactly when Unwind is among the tokens computed for
\* it.
Unwind == Token("panic", "index out of bounds")

\* str::split("::"): the parts between the non-overlapping occurrences of
\* "::", found from the left.
RECURSIVE Split(_)
Split(s) ==
    IF s = "" THEN <<"">>
    ELSE IF Len(s) >= 2 /\ SubSeq(s, 1, 2) = "::"
         THEN <<"">> \o Split(SubSeq(s, 3, Len(s)))
    ELSE LET r == Split(Tail(s))
         IN  <<Head(s) \o Head(r)>> \o Tail(r)

\* Nothing is cut off.
Truncate_Nothing(v, len) == v

\* Vec::truncate(len).
Truncate(v, len) == IF len >= Len(v) THEN v ELSE SubSeq(v, 1, len)

\* The loop of render_sequence, over the renderings of the elements.
RECURSIVE ExtendEach(_, _, _)
ExtendEach(out, rendered, between_) ==
    IF rendered = <<>> THEN out
    ELSE ExtendEach(out \o Head(rendered) \o between_, Tail(rendered),
                    between_)

\* rendered holds render(seq) for every seq of the sequence, in order; it
\* is evaluated once, as the loop visits every element once.
render_sequence(start, end, between_, return_nothing_if_empty, rendered) ==
    LET start_len == Len(start)
        Finish(looped) ==
            LET truncated == IF Len(looped) >= Len(between_)
                             THEN Truncate(looped, Len(looped) - Len(between_))
                             ELSE looped
            IN  IF Len(looped) < Len(between_) /\ return_nothing_if_empty
                THEN <<>>
                ELSE IF Len(truncated) = start_len /\ return_nothing_if_empty
                     THEN <<>>
                ELSE truncated \o end
    IN  CHOOSE output_ \in { Finish(ExtendEach(start, r, between_)) :
                                r \in {rendered} } : TRUE

(***************************************************************************)
(* rustdoc_types, as far as the renderer reads them.                       *)
(***************************************************************************)

ResolvedPath(name, args, id, param_names) ==
    [t |-> "ResolvedPath", name |-> name, args |-> args, id |-> id,
     param_names |-> param_names]

Generic(name) == [t |-> "Generic", name |-> name]

Primitive(name) == [t |-> "Primitive", name |-> name]

FunctionPointer(generic_params, decl) ==
    [t |-> "FunctionPointer", generic_params |-> generic_params,
     decl |-> decl]

Tuple(types) == [t |-> "Tuple", types |-> types]

Slice(ty) == [t |-> "Slice", type_ |-> ty]

Array(ty, len) == [t |-> "Array", type_ |-> ty, len |-> len]

ImplTrait(bounds) == [t |-> "ImplTrait", bounds |-> bounds]

Infer == [t |-> "Infer"]

RawPointer(mutable, ty) ==
    [t |-> "RawPointer", mutable |-> mutable, type_ |-> ty]

BorrowedRef(lt, mutable, ty) ==
    [t |-> "BorrowedRef", lifetime |-> lt, mutable |-> mutable,
     type_ |-> ty]

QualifiedPath(name, self_type, trait_) ==
    [t |-> "QualifiedPath", name |-> name, self_type |-> self_type,
     trait_ |-> trait_]

\* GenericBound.
TraitBound(trait_, generic_params) ==
    [t |-> "TraitBound", trait_ |-> trait_,
     generic_params |-> generic_params]

Outlives(lt) == [t |-> "Outlives", lifetime |-> lt]

\* GenericParamDef, by the variant of its kind.
LifetimeParam(name, outlives) ==
    [name |-> name, kind |-> [t |-> "Lifetime", outlives |-> outlives]]

TypeParam(name, bounds, synthetic) ==
    [name |-> name,
     kind |-> [t |-> "Type", bounds |-> bounds, synthetic |-> synthetic]]

ConstParam(name, ty) ==
    [name |-> name, kind |-> [t |-> "Const", type_ |-> ty]]

FnDecl(inputs, out) == [inputs |-> inputs, output |-> out]

Header(unsafe_, const_, async_, abi) ==
    [unsafe_ |-> unsafe_, const_ |-> const_, async_ |-> async_,
     abi |-> abi]

\* Abi: the name of the variant, and the text of Abi::Other.
Abi(variant) == [t |-> variant]

AbiOther(text) == [t |-> "Other", text |-> text]

Generics(params, where_predicates) ==
    [params |-> params, where_predicates |-> where_predicates]

\* WherePredicate.
BoundPredicate(ty, bounds, generic_params) ==
    [t |-> "BoundPredicate", type_ |-> ty, bounds |-> bounds,
     generic_params |-> generic_params]

RegionPredicate(lt, bounds) ==
    [t |-> "RegionPredicate", lifetime |-> lt, bounds |-> bounds]

EqPredicate(lhs, rhs) == [t |-> "EqPredicate", lhs |-> lhs, rhs |-> rhs]

\* Term.
TermType(ty) == [t |-> "Type", type_ |-> ty]

TermConstant(c) == [t |-> "Constant", constant |-> c]

Constant(ty, value, is_literal) ==
    [type_ |-> ty, value |-> value, is_literal |-> is_literal]

\* GenericArgs.
AngleBracketed(args, bindings) ==
    [t |-> "AngleBracketed", args |-> args, bindings |-> bindings]

Parenthesized(inputs, out) ==
    [t |-> "Parenthesized", inputs |-> inputs, output |-> out]

\* GenericArg.
ArgLifetime(name) == [t |-> "Lifetime", name |-> name]

ArgType(ty) == [t |-> "Type", type_ |-> ty]

ArgConst(c) == [t |-> "Const", constant |-> c]

ArgInfer == [t |-> "Infer"]

\* TypeBinding, by the variant of its binding.
BindingEquality(name, args, term) ==
    [name |-> name, args |-> args,
     binding |-> [t |-> "Equality", term |-> term]]

BindingConstraint(name, args, bounds) ==
    [name |-> name, args |-> args,
     binding |-> [t |-> "Constraint", bounds |-> bounds]]

\* Item of the index: only its name is read.
IndexItem(name) == [name |-> name]

\* Crate: only its index is read.
Crate(index) == [index |-> index]

(***************************************************************************)
(* The rendering functions.                                                *)
(***************************************************************************)

\* root.index[id] panics when id is not a key of the index.
render_id(root, id) ==
    IF id \notin DOMAIN root.index THEN <<Unwind>>
    ELSE IF root.index[id].name.some
         THEN <<identifier(root.index[id].name.v)>>
    ELSE <<>>

\* Every part `$crate` is an identifier.
PartToken_CrateAnywhere(split, index) ==
    IF split[index + 1] = "$crate" THEN identifier("$crate")
    ELSE IF index = Len(split) - 1 THEN type_(split[index + 1])
    ELSE identifier(split[index + 1])

\* The token of one part of the name of a resolved path; index counts
\* from 0.
PartToken(split, index) ==
    IF index = 0 /\ split[1] = "$crate" THEN identifier("$crate")
    ELSE IF index = Len(split) - 1 THEN type_(split[index + 1])
    ELSE identifier(split[index + 1])

\* The loop over the parts of the name, from part index on.
RECURSIVE PartsFrom(_, _)
PartsFrom(split, index) ==
    IF index >= Len(split) THEN <<>>
    ELSE <<PartToken(split, index), symbol("::")>>
             \o PartsFrom(split, index + 1)

RECURSIVE render_type(_, _)
RECURSIVE render_fn_decl(_, _)
RECURSIVE render_tuple(_, _)
RECURSIVE render_generic_args(_, _)
RECURSIVE render_term(_, _)
RECURSIVE render_generic_arg(_, _)
RECURSIVE render_constant(_, _)
RECURSIVE render_generic_param_defs(_, _)
RECURSIVE render_generic_param_def(_, _)
RECURSIVE render_generic_bounds(_, _)
RECURSIVE render_higher_rank_trait_bounds(_, _)

render_type(root, ty) ==
    CASE ty.t = "ResolvedPath" ->
           LET named ==
                 IF ty.name = "" THEN render_id(root, ty.id)
                 ELSE LET split == Split(ty.name)
                          parts == PartsFrom(split, 0)
                      IN  (IF Len(split) > 0 THEN Pop(parts) ELSE parts)
                            \o (IF ty.args.some
                                THEN render_generic_args(root, ty.args.v)
                                ELSE <<>>)
           IN  named \o (IF ty.param_names # <<>>
                         THEN plus \o render_generic_bounds(root,
                                                            ty.param_names)
                         ELSE <<>>)
      [] ty.t = "Generic" -> <<generic(ty.name)>>
      [] ty.t = "Primitive" -> <<primitive(ty.name)>>
      [] ty.t = "FunctionPointer" ->
           render_higher_rank_trait_bounds(root, ty.generic_params)
             \o <<kind("fn")>> \o render_fn_decl(root, ty.decl)
      [] ty.t = "Tuple" -> render_tuple(root, ty.types)
      [] ty.t = "Slice" ->
           <<symbol("[")>> \o render_type(root, ty.type_)
             \o <<symbol("]")>>
      [] ty.t = "Array" ->
           <<symbol("[")>> \o render_type(root, ty.type_)
             \o <<symbol(";"), ws, primitive(ty.len), symbol("]")>>
      [] ty.t = "ImplTrait" ->
           <<keyword("impl"), ws>> \o render_generic_bounds(root, ty.bounds)
      [] ty.t = "Infer" -> <<symbol("_")>>
      [] ty.t = "RawPointer" ->
           <<symbol("*"),
             keyword(IF ty.mutable THEN "mut" ELSE "const"), ws>>
             \o render_type(root, ty.type_)
      [] ty.t = "BorrowedRef" ->
           <<symbol("&")>>
             \o (IF ty.lifetime.some THEN <<lifetime(ty.lifetime.v), ws>>
                 ELSE <<>>)
             \o (IF ty.mutable THEN <<keyword("mut"), ws>> ELSE <<>>)
             \o render_type(root, ty.type_)
      [] ty.t = "QualifiedPath" ->
           <<symbol("<")>> \o render_type(root, ty.self_type)
             \o <<ws, keyword("as"), ws>> \o render_type(root, ty.trait_)
             \o <<symbol(">::"), identifier(ty.name)>>

simplified_self_AnySelfType(name, ty) ==
    IF name = "self" THEN Some(<<self_("self")>>) ELSE None

\* Option<Vec<Token>>: the short form of a self parameter.
simplified_self(name, ty) ==
    IF name = "self"
    THEN CASE ty.t = "Generic" /\ ty.name = "Self" ->
                Some(<<self_("self")>>)
           [] ty.t = "BorrowedRef" ->
                IF ty.type_.t = "Generic" /\ ty.type_.name = "Self"
                THEN Some(<<symbol("&")>>
                            \o (IF ty.lifetime.some
                                THEN <<lifetime(ty.lifetime.v), ws>>
                                ELSE <<>>)
                            \o (IF ty.mutable THEN <<keyword("mut"), ws>>
                                ELSE <<>>)
                            \o <<self_("self")>>)
                ELSE None
           [] OTHER -> None
    ELSE None

\* The closure of render_fn_decl: one (name, type) pair of the inputs.
render_input(root, input) ==
    LET name == input[1]
        ty == input[2]
        short == simplified_self(name, ty)
    IN  IF short.some THEN short.v
        ELSE (IF name # "_" THEN <<identifier(name), symbol(":"), ws>>
              ELSE <<>>)
               \o render_type(root, ty)

render_fn_decl(root, decl) ==
    render_sequence(<<symbol("(")>>, <<symbol(")")>>, comma, FALSE,
                    [i \in DOMAIN decl.inputs |->
                        render_input(root, decl.inputs[i])])
      \o (IF decl.output.some
          THEN arrow \o render_type(root, decl.output.v)
          ELSE <<>>)

render_tuple(root, types) ==
    render_sequence(<<symbol("(")>>, <<symbol(")")>>, comma, FALSE,
                    [i \in DOMAIN types |-> render_type(root, types[i])])

\* The closure of render_generic_args: a generic argument or a type
\* binding; field b tells which.
render_binding(root, arg) ==
    IF arg.b = "GenericArg" THEN render_generic_arg(root, arg.v)
    ELSE <<identifier(arg.v.name)>>
           \o render_generic_args(root, arg.v.args)
           \o (IF arg.v.binding.t = "Equality"
               THEN equals \o render_term(root, arg.v.binding.term)
               ELSE render_generic_bounds(root, arg.v.binding.bounds))

\* args.iter().map(Binding::GenericArg).chain(
\*     bindings.iter().map(Binding::TypeBinding))
Bindings(args, bindings) ==
    [i \in 1..(Len(args) + Len(bindings)) |->
        IF i <= Len(args) THEN [b |-> "GenericArg", v |-> args[i]]
        ELSE [b |-> "TypeBinding", v |-> bindings[i - Len(args)]]]

render_generic_args(root, args) ==
    IF args.t = "AngleBracketed"
    THEN LET all == Bindings(args.args, args.bindings)
         IN  render_sequence(<<symbol("<")>>, <<symbol(">")>>, comma, TRUE,
                             [i \in DOMAIN all |->
                                 render_binding(root, all[i])])
    ELSE render_sequence(<<symbol("(")>>, <<symbol(")")>>, comma, FALSE,
                         [i \in DOMAIN args.inputs |->
                             render_type(root, args.inputs[i])])
           \o (IF args.output.some
               THEN arrow \o render_type(root, args.output.v)
               ELSE <<>>)

render_term(root, term) ==
    IF term.t = "Type" THEN render_type(root, term.type_)
    ELSE render_constant(root, term.constant)

render_generic_arg(root, arg) ==
    CASE arg.t = "Lifetime" -> <<lifetime(arg.name)>>
      [] arg.t = "Type" -> render_type(root, arg.type_)
      [] arg.t = "Const" -> render_constant(root, arg.constant)
      [] arg.t = "Infer" -> <<symbol("_")>>

render_constant(root, constant) ==
    render_type(root, constant.type_)
      \o (IF constant.value.some
          THEN equals \o (IF constant.is_literal
                          THEN <<primitive(constant.value.v)>>
                          ELSE <<identifier(constant.value.v)>>)
          ELSE <<>>)

NotSynthetic_KeepAll(param) == TRUE

\* The filter of render_generic_param_defs.
NotSynthetic(param) ==
    IF param.kind.t = "Type" THEN ~param.kind.synthetic ELSE TRUE

render_generic_param_defs(root, params) ==
    LET params_without_synthetics == SelectSeq(params, NotSynthetic)
    IN  IF params_without_synthetics # <<>>
        THEN render_sequence(<<symbol("<")>>, <<symbol(">")>>, comma, TRUE,
                             [i \in DOMAIN params_without_synthetics |->
                                 render_generic_param_def(
                                     root, params_without_synthetics[i])])
        ELSE <<>>

render_generic_param_def(root, generic_param_def) ==
    CASE generic_param_def.kind.t = "Lifetime" ->
           <<lifetime(generic_param_def.name)>>
             \o (IF generic_param_def.kind.outlives # <<>>
                 THEN colon
                        \o render_sequence(
                               <<>>, <<>>, plus, TRUE,
                               [i \in DOMAIN generic_param_def.kind.outlives
                                  |-> <<lifetime(
                                        generic_param_def.kind.outlives[i])>>])
                 ELSE <<>>)
      [] generic_param_def.kind.t = "Type" ->
           <<generic(generic_param_def.name)>>
             \o (IF generic_param_def.kind.bounds # <<>>
                 THEN colon
                        \o render_generic_bounds(root,
                                generic_param_def.kind.bounds)
                 ELSE <<>>)
      [] generic_param_def.kind.t = "Const" ->
           <<qualifier("const"), ws, identifier(generic_param_def.name)>>
             \o colon \o render_type(root, generic_param_def.kind.type_)

\* The closure of render_generic_bounds.
render_bound(root, bound) ==
    IF bound.t = "TraitBound"
    THEN render_higher_rank_trait_bounds(root, bound.generic_params)
           \o render_type(root, bound.trait_)
    ELSE <<lifetime(bound.lifetime)>>

render_generic_bounds(root, bounds) ==
    IF bounds = <<>> THEN <<>>
    ELSE render_sequence(<<>>, <<>>, plus, TRUE,
                         [i \in DOMAIN bounds |->
                             render_bound(root, bounds[i])])

render_higher_rank_trait_bounds_NoSpace(root, generic_params) ==
    IF generic_params # <<>>
    THEN <<keyword("for")>>
           \o render_generic_param_defs(root, generic_params)
    ELSE <<>>

render_higher_rank_trait_bounds(root, generic_params) ==
    IF generic_params # <<>>
    THEN <<keyword("for")>>
           \o render_generic_param_defs(root, generic_params) \o <<ws>>
    ELSE <<>>

render_where_predicate(root, where_predicate) ==
    CASE where_predicate.t = "BoundPredicate" ->
           render_higher_rank_trait_bounds(root,
                                           where_predicate.generic_params)
             \o render_type(root, where_predicate.type_) \o colon
             \o render_generic_bounds(root, where_predicate.bounds)
      [] where_predicate.t = "RegionPredicate" ->
           <<lifetime(where_predicate.lifetime)>>
      [] where_predicate.t = "EqPredicate" ->
           render_type(root, where_predicate.lhs) \o equals
             \o render_term(root, where_predicate.rhs)

render_where_predicates(root, where_predicates) ==
    IF where_predicates # <<>>
    THEN <<ws, keyword("where"), ws>>
           \o render_sequence(<<>>, <<>>, comma, TRUE,
                              [i \in DOMAIN where_predicates |->
                                  render_where_predicate(
                                      root, where_predicates[i])])
    ELSE <<>>

render_generics(root, generics) ==
    render_generic_param_defs(root, generics.params)
      \o render_where_predicates(root, generics.where_predicates)

\* unreachable!()
Unreachable == Token("panic", "internal error: entered unreachable code")

\* The match on header.abi.
abi_qualifier(abi) ==
    CASE abi.t = "C" -> qualifier("c")
      [] abi.t = "Cdecl" -> qualifier("cdecl")
      [] abi.t = "Stdcall" -> qualifier("stdcall")
      [] abi.t = "Fastcall" -> qualifier("fastcall")
      [] abi.t = "Aapcs" -> qualifier("aapcs")
      [] abi.t = "Win64" -> qualifier("win64")
      [] abi.t = "SysV64" -> qualifier("sysV64")
      [] abi.t = "System" -> qualifier("system")
      [] abi.t = "Other" -> qualifier(abi.text)
      [] abi.t = "Rust" -> Unreachable

\* The match on header.abi is entered for every ABI.
header_qualifiers_AlwaysMatch(header) ==
    (IF header.unsafe_ THEN <<qualifier("unsafe"), ws>> ELSE <<>>)
      \o (IF header.const_ THEN <<qualifier("const"), ws>> ELSE <<>>)
      \o (IF header.async_ THEN <<qualifier("async"), ws>> ELSE <<>>)
      \o <<abi_qualifier(header.abi), ws>>

header_qualifiers_ConstFirst(header) ==
    (IF header.const_ THEN <<qualifier("const"), ws>> ELSE <<>>)
      \o (IF header.unsafe_ THEN <<qualifier("unsafe"), ws>> ELSE <<>>)
      \o (IF header.async_ THEN <<qualifier("async"), ws>> ELSE <<>>)
      \o (IF header.abi # Abi("Rust")
          THEN <<abi_qualifier(header.abi), ws>>
          ELSE <<>>)

\* The qualifiers render_function writes between `pub ` and `fn `.
header_qualifiers(header) ==
    (IF header.unsafe_ THEN <<qualifier("unsafe"), ws>> ELSE <<>>)
      \o (IF header.const_ THEN <<qualifier("const"), ws>> ELSE <<>>)
      \o (IF header.async_ THEN <<qualifier("async"), ws>> ELSE <<>>)
      \o (IF header.abi # Abi("Rust")
          THEN <<abi_qualifier(header.abi), ws>>
          ELSE <<>>)

render_function(root, name, decl, generics, header) ==
    <<qualifier("pub"), ws>> \o header_qualifiers(header)
      \o <<kind("fn"), ws>> \o name
      \o render_generic_param_defs(root, generics.params)
      \o render_fn_decl(root, decl)
      \o render_where_predicates(root, generics.where_predicates)

\* A segment of an item's path: the variant of the segment's item and its
\* effective name.
Segment(inner, name) == [inner |-> inner, name |-> name]

\* The token constructor render_path picks for a segment.
SegmentToken(item) ==
    IF item.inner \in {"Function", "Method"} THEN function(item.name)
    ELSE IF item.inner \in {"Trait", "Struct", "Union", "Enum", "Typedef"}
         THEN type_(item.name)
    ELSE identifier(item.name)

\* The loop of render_path.
RECURSIVE PathTokens(_)
PathTokens(path) ==
    IF path = <<>> THEN <<>>
    ELSE <<SegmentToken(Head(path)), symbol("::")>>
           \o PathTokens(Tail(path))

render_path_KeepLast(path) == PathTokens(path)

render_path(path) ==
    IF path # <<>> THEN Pop(PathTokens(path)) ELSE PathTokens(path)

\* tags.iter().flat_map(|t| [Token::kind(*t), ws!()])
RECURSIVE TagTokens(_)
TagTokens(tags) ==
    IF tags = <<>> THEN <<>>
    ELSE <<kind(Head(tags)), ws>> \o TagTokens(Tail(tags))

render_simple_NoPub(tags, path) == TagTokens(tags) \o render_path(path)

render_simple(tags, path) ==
    <<qualifier("pub"), ws>> \o TagTokens(tags) \o render_path(path)

\* An item to render: the path item.path() returns, item.item.name and
\* item.item.inner.
IntermediatePublicItem(path, name, inner) ==
    [path |-> path, name |-> name, inner |-> inner]

\* Vec::pop() as a statement: an empty vector stays empty.
PopIfAny(v) == IF v = <<>> THEN v ELSE Pop(v)

token_stream(root, item) ==
    LET inner == item.inner
        path == item.path
    IN  CASE inner.t = "Module" -> render_simple(<<"mod">>, path)
          [] inner.t = "ExternCrate" ->
               render_simple(<<"extern", "crate">>, path)
          [] inner.t = "Import" -> render_simple(<<"use">>, path)
          [] inner.t = "Union" -> render_simple(<<"union">>, path)
          [] inner.t = "Struct" ->
               render_simple(<<"struct">>, path)
                 \o render_generics(root, inner.generics)
          [] inner.t = "StructField" ->
               render_simple(<<"struct", "field">>, path) \o colon
                 \o render_type(root, inner.type_)
          [] inner.t = "Enum" ->
               render_simple(<<"enum">>, path)
                 \o render_generics(root, inner.generics)
          [] inner.t = "Variant" ->
               render_simple(<<"enum", "variant">>, path)
                 \o (IF inner.variant.t = "Tuple"
                     THEN render_tuple(root, inner.variant.types)
                     ELSE <<>>)
          [] inner.t \in {"Function", "Method"} ->
               render_function(root, render_path(path), inner.decl,
                               inner.generics, inner.header)
          [] inner.t = "Trait" ->
               render_simple(IF inner.is_unsafe THEN <<"unsafe", "trait">>
                             ELSE <<"trait">>, path)
                 \o render_generics(root, inner.generics)
          [] inner.t = "TraitAlias" ->
               render_simple(<<"trait", "alias">>, path)
          [] inner.t = "Impl" -> render_simple(<<"impl">>, path)
          [] inner.t = "Typedef" ->
               render_simple(<<"type">>, path)
                 \o render_generics(root, inner.generics) \o equals
                 \o render_type(root, inner.type_)
          [] inner.t = "AssocType" ->
               render_simple(<<"type">>, path)
                 \o render_generics(root, inner.generics)
                 \o render_generic_bounds(root, inner.bounds)
                 \o (IF inner.default.some
                     THEN equals \o render_type(root, inner.default.v)
                     ELSE <<>>)
          [] inner.t = "OpaqueTy" ->
               render_simple(<<"opaque", "type">>, path)
          [] inner.t = "Constant" ->
               render_simple(<<"const">>, path) \o colon
                 \o render_constant(root, inner.constant)
          [] inner.t = "AssocConst" ->
               render_simple(<<"const">>, path) \o colon
                 \o render_type(root, inner.type_)
          [] inner.t = "Static" ->
               render_simple(IF inner.mutable THEN <<"mut", "static">>
                             ELSE <<"static">>, path)
                 \o colon \o render_type(root, inner.type_)
          [] inner.t = "ForeignType" -> render_simple(<<"type">>, path)
          [] inner.t = "Macro" ->
               render_simple(<<"macro">>, path) \o <<symbol("!")>>
          [] inner.t = "ProcMacro" ->
               LET name == identifier(IF item.name.some THEN item.name.v
                                      ELSE "")
               IN  PopIfAny(render_simple(<<"proc", "macro">>, path))
                     \o (CASE inner.kind = "Bang" ->
                                <<name, symbol("!()")>>
                            [] inner.kind = "Attr" ->
                                <<symbol("#["), name, symbol("]")>>
                            [] inner.kind = "Derive" ->
                                <<symbol("#[derive("), name, symbol(")]")>>)
          [] inner.t = "PrimitiveType" ->
               render_simple(<<"primitive", "type">>, path)

(***************************************************************************)
(* The calls of the renderer that are checked: the function called and     *)
(* its arguments, drawn from small sets of rustdoc values.                 *)
(***************************************************************************)

\* The index of the crate: one named item and one item without a name.
\* The id "gone" is not in the index.
RenderRoot ==
    Crate([id \in {"id", "anon"} |->
              IF id = "id" THEN IndexItem(Some("item_name"))
              ELSE IndexItem(None)])

Ids == {"id", "anon", "gone"}

\* The vectors of at most MaxList elements of S.
VecsOf(S) == UNION { [1..n -> S] : n \in 0..MaxList }

SelfType == Generic("Self")

U8 == Primitive("u8")

Unnamed(id) == ResolvedPath("", None, id, <<>>)

CloneBound == TraitBound(ResolvedPath("Clone", None, "id", <<>>), <<>>)

ForBound ==
    TraitBound(ResolvedPath("Fn", Some(Parenthesized(<<>>, None)), "id",
                            <<>>),
               <<LifetimeParam("'a", <<>>)>>)

LeafTypes == {SelfType, Generic("T"), U8, Infer} \cup
             { Unnamed(id) : id \in Ids }

RefTypes ==
    { BorrowedRef(lt, m, ty) :
        lt \in {None, Some("'a")}, m \in BOOLEAN, ty \in {SelfType, U8} }

NestedTypes ==
    { BorrowedRef(None, FALSE, BorrowedRef(None, FALSE, SelfType)),
      ResolvedPath("a::B", None, "id", <<>>),
      ResolvedPath("Vec", Some(AngleBracketed(<<>>, <<>>)), "id", <<>>),
      ResolvedPath("Vec", Some(AngleBracketed(<<ArgType(U8)>>, <<>>)), "id",
                   <<>>),
      ResolvedPath("", Some(AngleBracketed(<<ArgType(U8)>>, <<>>)), "id",
                   <<CloneBound>>),
      ResolvedPath("dyn", None, "gone", <<CloneBound, Outlives("'a")>>),
      FunctionPointer(<<>>, FnDecl(<<>>, None)),
      FunctionPointer(<<LifetimeParam("'a", <<>>)>>,
                      FnDecl(<<<<"_", U8>>>>, Some(U8))),
      Slice(SelfType), Slice(Unnamed("gone")), Array(U8, "20"),
      ImplTrait(<<>>), ImplTrait(<<CloneBound, ForBound>>),
      RawPointer(TRUE, U8), RawPointer(FALSE, SelfType),
      QualifiedPath("Item", Generic("T"),
                    ResolvedPath("Iterator", None, "id", <<>>)) }

\* Resolved paths with a name of one, two and three parts, `$crate` first,
\* last and alone, and an empty part, without and with generic arguments
\* and bounds.
ResolvedPaths ==
    { ResolvedPath(name, args, "id", param_names) :
        name \in {"name", "name::with::parts", "$crate", "$crate::name",
                  "name::$crate", "name::"},
        args \in {None, Some(AngleBracketed(<<ArgType(U8)>>, <<>>))},
        param_names \in {<<>>, <<CloneBound>>} }

Types ==
    LeafTypes \cup RefTypes \cup NestedTypes \cup ResolvedPaths \cup
    { Tuple(types) : types \in VecsOf({SelfType, U8, Unnamed("anon")}) }

\* The (name, type) pairs of a function's inputs.
Inputs ==
    {"self", "_", "x"} \X
    ({SelfType, U8, Unnamed("anon"),
      BorrowedRef(None, FALSE, BorrowedRef(None, FALSE, SelfType))}
       \cup { BorrowedRef(lt, m, SelfType) :
                lt \in {None, Some("'a")}, m \in BOOLEAN })

FnDecls ==
    { FnDecl(inputs, out) : inputs \in VecsOf(Inputs),
                            out \in {None, Some(U8)} }

GenericParamDefs ==
    { LifetimeParam("'a", <<>>), LifetimeParam("'a", <<"'b", "'c">>),
      TypeParam("T", <<>>, FALSE), TypeParam("impl X", <<>>, TRUE),
      TypeParam("U", <<CloneBound>>, FALSE),
      TypeParam("impl Y", <<CloneBound>>, TRUE), ConstParam("N", U8) }

GenericBounds ==
    { CloneBound, ForBound, Outlives("'a"),
      TraitBound(Unnamed("anon"), <<>>), TraitBound(Unnamed("gone"), <<>>) }

U8Constant == Constant(U8, Some("1"), TRUE)

GenericArgsSet ==
    { AngleBracketed(args, bindings) :
        args \in VecsOf({ArgLifetime("'a"), ArgType(U8), ArgInfer,
                         ArgConst(U8Constant)}),
        bindings \in { <<>>,
                       <<BindingEquality("Item", AngleBracketed(<<>>, <<>>),
                                         TermType(U8))>>,
                       <<BindingConstraint("Item",
                                           AngleBracketed(<<>>, <<>>),
                                           <<CloneBound>>)>> } }
    \cup
    { Parenthesized(inputs, out) :
        inputs \in VecsOf({U8, SelfType, Unnamed("anon")}),
        out \in {None, Some(U8)} }

WherePredicates ==
    { BoundPredicate(Generic("T"), <<CloneBound>>, <<>>),
      BoundPredicate(Generic("T"), <<>>, <<>>),
      BoundPredicate(Generic("T"), <<ForBound>>,
                     <<LifetimeParam("'a", <<>>)>>),
      BoundPredicate(Unnamed("gone"), <<CloneBound>>, <<>>),
      RegionPredicate("'a", <<Outlives("'b")>>),
      EqPredicate(Generic("T"), TermType(U8)),
      EqPredicate(Generic("T"), TermConstant(U8Constant)) }

Abis ==
    { Abi(variant) : variant \in {"Rust", "C", "Cdecl", "Stdcall",
                                  "Fastcall", "Aapcs", "Win64", "SysV64",
                                  "System"} }
    \cup {AbiOther("vectorcall")}

Headers ==
    { Header(u, c, a, abi) : u \in BOOLEAN, c \in BOOLEAN, a \in BOOLEAN,
                             abi \in Abis }

GenericsSet ==
    { Generics(<<>>, <<>>),
      Generics(<<TypeParam("T", <<>>, FALSE)>>,
               <<BoundPredicate(Generic("T"), <<CloneBound>>, <<>>)>>),
      Generics(<<TypeParam("impl X", <<>>, TRUE)>>, <<>>) }

PayloadTypes == {U8, Unnamed("anon"), Unnamed("gone")}

ItemPaths ==
    { <<>>,
      <<Segment("Module", "a")>>,
      <<Segment("Module", "a"), Segment("Struct", "S")>>,
      <<Segment("Struct", "S"), Segment("Method", "f")>> }

ItemDecls ==
    { FnDecl(<<>>, None),
      FnDecl(<<<<"self", BorrowedRef(None, FALSE, SelfType)>>>>,
             Some(U8)) }

ItemHeaders ==
    { Header(FALSE, FALSE, FALSE, Abi("Rust")),
      Header(TRUE, FALSE, FALSE, Abi("C")),
      Header(TRUE, TRUE, TRUE, AbiOther("vectorcall")) }

\* The values of item.inner, every variant of ItemEnum among them.
ItemInners ==
    { [t |-> k] : k \in {"Module", "ExternCrate", "Import", "Union",
                         "TraitAlias", "Impl", "OpaqueTy", "ForeignType",
                         "Macro", "PrimitiveType"} }
    \cup { [t |-> k, generics |-> g] :
             k \in {"Struct", "Enum"}, g \in GenericsSet }
    \cup { [t |-> k, type_ |-> ty] :
             k \in {"StructField", "AssocConst"}, ty \in PayloadTypes }
    \cup { [t |-> "Variant", variant |-> v] :
             v \in { [t |-> "Plain"], [t |-> "Struct"],
                     [t |-> "Tuple", types |-> <<>>],
                     [t |-> "Tuple", types |-> <<U8, SelfType>>] } }
    \cup { [t |-> k, decl |-> d, generics |-> g, header |-> h] :
             k \in {"Function", "Method"}, d \in ItemDecls,
             g \in GenericsSet, h \in ItemHeaders }
    \cup { [t |-> "Trait", is_unsafe |-> u, generics |-> g] :
             u \in BOOLEAN, g \in GenericsSet }
    \cup { [t |-> "Typedef", generics |-> g, type_ |-> ty] :
             g \in GenericsSet, ty \in PayloadTypes }
    \cup { [t |-> "AssocType", generics |-> g, bounds |-> b,
            default |-> d] :
             g \in GenericsSet, b \in {<<>>, <<CloneBound>>},
             d \in {None, Some(U8)} }
    \cup { [t |-> "Constant", constant |-> c] :
             c \in {U8Constant, Constant(U8, Some("N"), FALSE),
                    Constant(Unnamed("gone"), None, FALSE)} }
    \cup { [t |-> "Static", mutable |-> m, type_ |-> ty] :
             m \in BOOLEAN, ty \in PayloadTypes }
    \cup { [t |-> "ProcMacro", kind |-> k] :
             k \in {"Bang", "Attr", "Derive"} }

\* Segments of every variant render_path tells apart, and two more.
Segments ==
    { Segment(k, "a") : k \in {"Function", "Method", "Trait", "Struct",
                               "Union", "Enum", "Typedef", "Module",
                               "Constant"} }
    \cup {Segment("Module", "b")}

\* Arguments of render_sequence: token lists of up to two tokens, and the
\* renderings of the elements, some of them without a token.
TokenLists ==
    { <<>>, <<symbol("(")>>, <<symbol(","), ws>> }

Renderings == { <<>>, <<generic("T")>>, <<symbol("&"), generic("T")>> }

RenderItems ==
    { IntermediatePublicItem(path, name, inner) :
        path \in ItemPaths, name \in {None, Some("m")},
        inner \in ItemInners }

(***************************************************************************)
(* The parse boundary: public_api_from_rustdoc_json_str.                   *)
(***************************************************************************)

Ok(v) == [ok |-> TRUE, v |-> v]

Err(e) == [ok |-> FALSE, e |-> e]

\* The rustdoc JSON of a crate without public items.
EmptyCrateJson == "{\"root\":\"0:0\",\"index\":{},\"format_version\":14}"

\* The rustdoc JSON of a crate with the public struct a::S.
StructCrateJson ==
    "{\"root\":\"0:0\",\"index\":{\"0:1\":{\"name\":\"S\"}},\"format_version\":14}"

\* The texts that serde_json decodes to a Crate, and the items of each.
RustdocJson ==
    [text \in {EmptyCrateJson, StructCrateJson} |->
        IF text = EmptyCrateJson THEN <<>>
        ELSE <<IntermediatePublicItem(
                   <<Segment("Module", "a"), Segment("Struct", "S")>>,
                   Some("S"),
                   [t |-> "Struct", generics |-> Generics(<<>>, <<>>)])>>]

RustdocJsonStrs ==
    {"}}}}}}}}}", "", "{}", "[]", "{\"root\":", EmptyCrateJson,
     StructCrateJson}

\* serde_json::from_str::<Crate>(text)
serde_json_from_str(text) ==
    IF text \in DOMAIN RustdocJson THEN Ok(RustdocJson[text])
    ELSE Err("serde_json::Error")

From_serde_json_Error_Unwrap(e) == Unwind

\* #[from] serde_json::Error: the conversion `?` applies.
From_serde_json_Error(e) == [variant |-> "SerdeJsonError", source |-> e]

\* The names of the segments of a path.
PathNames(path) == [i \in DOMAIN path |-> path[i].name]

public_api_from_rustdoc_json_str(rustdoc_json_str) ==
    LET crate == serde_json_from_str(rustdoc_json_str)
    IN  IF ~crate.ok THEN Err(From_serde_json_Error(crate.e))
        ELSE Ok([i \in DOMAIN crate.v |->
                    PublicItem(PathNames(crate.v[i].path),
                               token_stream(RenderRoot, crate.v[i]))])

\* The calls.
Calls ==
    { [fn |-> "token_stream", item |-> item] : item \in RenderItems }
    \cup { [fn |-> "render_type", ty |-> ty] : ty \in Types }
    \cup { [fn |-> "render_fn_decl", decl |-> decl] : decl \in FnDecls }
    \cup { [fn |-> "render_function", name |-> name, decl |-> decl,
            generics |-> generics, header |-> header] :
             name \in {<<>>, <<function("f")>>}, decl \in ItemDecls,
             generics \in GenericsSet, header \in Headers }
    \cup { [fn |-> "render_generic_param_defs", params |-> params] :
             params \in VecsOf(GenericParamDefs) }
    \cup { [fn |-> "render_generic_args", args |-> args] :
             args \in GenericArgsSet }
    \cup { [fn |-> "render_generic_bounds", bounds |-> bounds] :
             bounds \in VecsOf(GenericBounds) }
    \cup { [fn |-> "render_path", path |-> path] : path \in VecsOf(Segments) }
    \cup { [fn |-> "render_sequence", start |-> start, end |-> end,
            between_ |-> between_,
            return_nothing_if_empty |-> return_nothing_if_empty,
            rendered |-> rendered] :
             start \in TokenLists, end \in {<<>>, <<symbol(")")>>},
             between_ \in TokenLists \cup {<<symbol(",")>>},
             return_nothing_if_empty \in BOOLEAN,
             rendered \in VecsOf(Renderings) }
    \cup { [fn |-> "render_higher_rank_trait_bounds",
            generic_params |-> generic_params] :
             generic_params \in VecsOf(GenericParamDefs) }
    \cup { [fn |-> "render_where_predicates",
            where_predicates |-> where_predicates] :
             where_predicates \in VecsOf(WherePredicates) }
    \cup { [fn |-> "public_api_from_rustdoc_json_str",
            rustdoc_json_str |-> text] : text \in RustdocJsonStrs }

\* A panic was raised while the tokens were computed.
Panicked(tokens) == \E i \in DOMAIN tokens : tokens[i].tag = "panic"

\* The caller's view of a call that computed tokens: it returned them, or
\* it unwound.
Return(tokens) ==
    IF Panicked(tokens)
    THEN pc' = "panicked" /\ output' = <<>>
    ELSE pc' = "returned" /\ output' = tokens

DiffIdle ==
    UNCHANGED <<old_sorted, new_sorted, removed, changed, added, dropped,
                old_items, new_items, iterations, call, invocations>>

InitRender ==
    /\ output = <<>>
    /\ pc = "call"
    /\ old_sorted = <<>>
    /\ new_sorted = <<>>
    /\ removed = <<>>
    /\ changed = <<>>
    /\ added = <<>>
    /\ dropped = <<>>
    /\ old_items = BagOf(<<>>)
    /\ new_items = BagOf(<<>>)
    /\ iterations = 0
    /\ invocations = <<>>
    /\ call \in Calls

TokenStream ==
    /\ pc = "call"
    /\ call.fn = "token_stream"
    /\ Return(token_stream(RenderRoot, call.item))
    /\ DiffIdle

RenderType ==
    /\ pc = "call"
    /\ call.fn = "render_type"
    /\ Return(render_type(RenderRoot, call.ty))
    /\ DiffIdle

RenderFnDecl ==
    /\ pc = "call"
    /\ call.fn = "render_fn_decl"
    /\ Return(render_fn_decl(RenderRoot, call.decl))
    /\ DiffIdle

RenderFunction ==
    /\ pc = "call"
    /\ call.fn = "render_function"
    /\ Return(render_function(RenderRoot, call.name, call.decl,
                              call.generics, call.header))
    /\ DiffIdle

RenderGenericParamDefs ==
    /\ pc = "call"
    /\ call.fn = "render_generic_param_defs"
    /\ Return(render_generic_param_defs(RenderRoot, call.params))
    /\ DiffIdle

RenderGenericArgs ==
    /\ pc = "call"
    /\ call.fn = "render_generic_args"
    /\ Return(render_generic_args(RenderRoot, call.args))
    /\ DiffIdle

RenderGenericBounds ==
    /\ pc = "call"
    /\ call.fn = "render_generic_bounds"
    /\ Return(render_generic_bounds(RenderRoot, call.bounds))
    /\ DiffIdle

RenderSequence ==
    /\ pc = "call"
    /\ call.fn = "render_sequence"
    /\ Return(render_sequence(call.start, call.end, call.between_,
                              call.return_nothing_if_empty, call.rendered))
    /\ DiffIdle

RenderPath ==
    /\ pc = "call"
    /\ call.fn = "render_path"
    /\ Return(render_path(call.path))
    /\ DiffIdle

RenderHigherRankTraitBounds ==
    /\ pc = "call"
    /\ call.fn = "render_higher_rank_trait_bounds"
    /\ Return(render_higher_rank_trait_bounds(RenderRoot,
                                              call.generic_params))
    /\ DiffIdle

RenderWherePredicates ==
    /\ pc = "call"
    /\ call.fn = "render_where_predicates"
    /\ Return(render_where_predicates(RenderRoot, call.where_predicates))
    /\ DiffIdle

\* The result is a Result<Vec<PublicItem>, Error>; the call unwinds when
\* the conversion of the error or the rendering of an item does.
PublicApiFromRustdocJsonStr ==
    /\ pc = "call"
    /\ call.fn = "public_api_from_rustdoc_json_str"
    /\ LET result == public_api_from_rustdoc_json_str(call.rustdoc_json_str)
       IN  IF result.ok
           THEN IF \E i \in DOMAIN result.v : Panicked(result.v[i].tokens)
                THEN pc' = "panicked" /\ output' = <<>>
                ELSE pc' = "returned" /\ output' = result
           ELSE IF result.e = Unwind
                THEN pc' = "panicked" /\ output' = <<>>
                ELSE pc' = "returned" /\ output' = result
    /\ DiffIdle

NextRender ==
    \/ TokenStream
    \/ RenderType
    \/ RenderFnDecl
    \/ RenderFunction
    \/ RenderGenericParamDefs
    \/ RenderGenericArgs
    \/ RenderGenericBounds
    \/ RenderSequence
    \/ RenderPath
    \/ RenderHigherRankTraitBounds
    \/ RenderWherePredicates
    \/ PublicApiFromRustdocJsonStr

SpecRender == InitRender /\ [][NextRender]_vars

(***************************************************************************)
(* Properties of the parse boundary and of the renderer.                   *)
(***************************************************************************)

\* The variants of Error.
ErrorVariants == {"SerdeJsonError"}

\* The call in progress or finished is a call of fn.
Called(fn) == call.fn = fn

\* C13: malformed input is an error value.  Called with a text that is not
\* the rustdoc JSON of a crate, public_api_from_rustdoc_json_str returns
\* (it does not unwind) an Err whose error is Error::SerdeJsonError, the
\* one variant of Error, and no items.
Thm_C13 ==
    (/\ Called("public_api_from_rustdoc_json_str")
     /\ pc # "call"
     /\ call.rustdoc_json_str \notin DOMAIN RustdocJson) =>
        /\ pc = "returned"
        /\ ~output.ok
        /\ DOMAIN output = {"ok", "e"}
        /\ output.e.variant = "SerdeJsonError"
        /\ output.e.variant \in ErrorVariants
        /\ Cardinality(ErrorVariants) = 1

Wit_C13 ==
    /\ Called("public_api_from_rustdoc_json_str")
    /\ pc = "returned"
    /\ call.rustdoc_json_str = "}}}}}}}}}"
    /\ ~output.ok

\* The call renders a resolved path without a name, without bounds.
RendersUnnamedPath ==
    /\ Called("render_type")
    /\ call.ty.t = "ResolvedPath"
    /\ call.ty.name = ""
    /\ call.ty.param_names = <<>>

\* C14: rendering a resolved path whose name is empty never fails.  The
\* call returns; the result is the one Identifier token of the name the
\* index holds for the id, and it is empty when the index holds the id
\* without a name or does not hold the id.
Cex_C14 ==
    (RendersUnnamedPath /\ pc # "call") =>
        /\ pc = "returned"
        /\ output =
             IF /\ call.ty.id \in DOMAIN RenderRoot.index
                /\ RenderRoot.index[call.ty.id].name.some
             THEN <<identifier(RenderRoot.index[call.ty.id].name.v)>>
             ELSE <<>>

\* The variants of ItemEnum.
ItemEnumVariants ==
    {"Module", "ExternCrate", "Import", "Union", "Struct", "StructField",
     "Enum", "Variant", "Function", "Method", "Trait", "TraitAlias", "Impl",
     "Typedef", "AssocType", "OpaqueTy", "Constant", "AssocConst", "Static",
     "ForeignType", "Macro", "ProcMacro", "PrimitiveType"}

\* C15: whatever the variant of the item (module and use among them), its
\* path (the empty one too) and its payload, the tokens token_stream
\* returns begin with Qualifier("pub") and a Whitespace, so they are never
\* empty.
Thm_C15 ==
    (Called("token_stream") /\ pc = "returned") =>
        /\ call.item.inner.t \in ItemEnumVariants
        /\ Len(output) >= 2
        /\ output[1] = Token("Qualifier", "pub")
        /\ output[2].tag = "Whitespace"

Wit_C15 ==
    /\ Called("token_stream")
    /\ pc = "returned"
    /\ call.item.inner.t = "ProcMacro"
    /\ call.item.path = <<>>
    /\ call.item.name = None
    /\ Len(output) = 7

\* The token sequences parts, with sep between each two neighbours.
RECURSIVE JoinTokens(_, _)
JoinTokens(parts, sep) ==
    IF parts = <<>> THEN <<>>
    ELSE IF Len(parts) = 1 THEN parts[1]
    ELSE parts[1] \o sep \o JoinTokens(Tail(parts), sep)

CommaSpace == <<Token("Symbol", ","), Token("Whitespace", " ")>>

\* The parameter is `self` of type Self or of a reference directly to
\* Self.
IsSelfParameter(name, ty) ==
    /\ name = "self"
    /\ \/ ty = Generic("Self")
       \/ ty.t = "BorrowedRef" /\ ty.type_ = Generic("Self")

\* `self`, `&self`, `&mut self`, with the lifetime between `&` and `mut`.
ShortSelf(ty) ==
    IF ty.t = "Generic" THEN <<Token("Self_", "self")>>
    ELSE <<Token("Symbol", "&")>>
           \o (IF ty.lifetime.some
               THEN <<Token("Lifetime", ty.lifetime.v), ws>>
               ELSE <<>>)
           \o (IF ty.mutable THEN <<Token("Keyword", "mut"), ws>> ELSE <<>>)
           \o <<Token("Self_", "self")>>

\* `name: type`
NameColonType(name, ty) ==
    <<Token("Identifier", name), Token("Symbol", ":"), ws>>
      \o render_type(RenderRoot, ty)

\* The parameter as the claim has it.
ClaimedInput(input) ==
    IF IsSelfParameter(input[1], input[2]) THEN ShortSelf(input[2])
    ELSE NameColonType(input[1], input[2])

\* The parameter, a parameter named `_` being its type alone.
AmendedInput(input) ==
    IF IsSelfParameter(input[1], input[2]) THEN ShortSelf(input[2])
    ELSE IF input[1] = "_" THEN render_type(RenderRoot, input[2])
    ELSE NameColonType(input[1], input[2])

\* The declaration: the parameters, as the tokens inputs has for each, in
\* parentheses, then the return type.
DeclTokens(decl, inputs) ==
    <<Token("Symbol", "(")>> \o JoinTokens(inputs, CommaSpace)
      \o <<Token("Symbol", ")")>>
      \o (IF decl.output.some
          THEN arrow \o render_type(RenderRoot, decl.output.v)
          ELSE <<>>)

\* C16, as claimed: a parameter is rendered without its type (`self`,
\* `&self`, `&mut self`, a lifetime kept between `&` and `mut`) exactly when
\* its name is `self` and its type is Self or a reference directly to Self;
\* every other parameter is rendered as `name: type`.
Cex_C16 ==
    (Called("render_fn_decl") /\ pc = "returned") =>
        output = DeclTokens(call.decl,
                            [i \in DOMAIN call.decl.inputs |->
                                ClaimedInput(call.decl.inputs[i])])

\* C16, amended: as claimed, except that a parameter named `_` that is not
\* simplified is rendered as its type alone, without `_: `.
Thm_C16 ==
    (Called("render_fn_decl") /\ pc = "returned") =>
        output = DeclTokens(call.decl,
                            [i \in DOMAIN call.decl.inputs |->
                                AmendedInput(call.decl.inputs[i])])

Wit_C16 ==
    /\ Called("render_fn_decl")
    /\ pc = "returned"
    /\ call.decl.inputs =
         << <<"self", BorrowedRef(Some("'a"), TRUE, Generic("Self"))>>,
            <<"_", Generic("Self")>> >>
    /\ output =
         << Token("Symbol", "("), Token("Symbol", "&"),
            Token("Lifetime", "'a"), ws, Token("Keyword", "mut"), ws,
            Token("Self_", "self"), Token("Symbol", ","), ws,
            Token("Generic", "Self"), Token("Symbol", ")") >>

\* The qualifier that names an ABI other than Rust.
AbiName(abi) ==
    IF abi.t = "Other" THEN abi.text
    ELSE [C |-> "c", Cdecl |-> "cdecl", Stdcall |-> "stdcall",
          Fastcall |-> "fastcall", Aapcs |-> "aapcs", Win64 |-> "win64",
          SysV64 |-> "sysV64", System |-> "system"][abi.t]

\* The qualifiers a header sets, in the order unsafe, const, async, ABI.
QualifierNames(header) ==
    (IF header.unsafe_ THEN <<"unsafe">> ELSE <<>>)
      \o (IF header.const_ THEN <<"const">> ELSE <<>>)
      \o (IF header.async_ THEN <<"async">> ELSE <<>>)
      \o (IF header.abi.t # "Rust" THEN <<AbiName(header.abi)>> ELSE <<>>)

\* C17: for every header, render_function writes `pub `, then the
\* qualifiers the header sets in the order unsafe, const, async, ABI name,
\* each followed by one Whitespace, then `fn `; a flag that is false and
\* the Rust ABI write no token.
Thm_C17 ==
    (Called("render_function") /\ pc # "call") =>
        LET names == QualifierNames(call.header)
            k == Len(names)
        IN  /\ pc = "returned"
            /\ Len(output) >= 2 * k + 4
            /\ output[1] = Token("Qualifier", "pub")
            /\ output[2] = ws
            /\ \A i \in 1..k :
                  /\ output[2 * i + 1] = Token("Qualifier", names[i])
                  /\ output[2 * i + 2] = ws
            /\ output[2 * k + 3] = Token("Kind", "fn")
            /\ output[2 * k + 4] = ws

Wit_C17 ==
    /\ Called("render_function")
    /\ pc = "returned"
    /\ call.header = Header(TRUE, TRUE, TRUE, Abi("SysV64"))
    /\ SubSeq(output, 3, 12) =
         << Token("Qualifier", "unsafe"), ws, Token("Qualifier", "const"),
            ws, Token("Qualifier", "async"), ws,
            Token("Qualifier", "sysV64"), ws, Token("Kind", "fn"), ws >>

\* A type parameter marked synthetic.
IsSynthetic(param) == param.kind.t = "Type" /\ param.kind.synthetic

\* The parameters that are not synthetic type parameters, in their order.
RECURSIVE WithoutSynthetic(_)
WithoutSynthetic(params) ==
    IF params = <<>> THEN <<>>
    ELSE (IF IsSynthetic(Head(params)) THEN <<>> ELSE <<Head(params)>>)
           \o WithoutSynthetic(Tail(params))

\* C18: render_generic_param_defs drops the type parameters marked
\* synthetic and no other parameter, writes the rest as `<p1, p2, ...>` in
\* their order, and returns no token at all (not `<>`) when nothing is
\* left, also when the list was not empty.
Thm_C18 ==
    (Called("render_generic_param_defs") /\ pc # "call") =>
        LET kept == WithoutSynthetic(call.params)
        IN  /\ pc = "returned"
            /\ output =
                 IF kept = <<>> THEN <<>>
                 ELSE <<Token("Symbol", "<")>>
                        \o JoinTokens([i \in 1..Len(kept) |->
                                          render_generic_param_def(
                                              RenderRoot, kept[i])],
                                      CommaSpace)
                        \o <<Token("Symbol", ">")>>

Wit_C18 ==
    /\ Called("render_generic_param_defs")
    /\ pc = "returned"
    /\ call.params = << TypeParam("impl X", <<>>, TRUE),
                        LifetimeParam("'a", <<>>) >>
    /\ output = << Token("Symbol", "<"), Token("Lifetime", "'a"),
                   Token("Symbol", ">") >>

\* `(` `)`
Parens == <<Token("Symbol", "("), Token("Symbol", ")")>>

\* ` -> type` for a return type, nothing without one.
ReturnTokens(out) ==
    IF out.some
    THEN <<ws, Token("Symbol", "->"), ws>> \o render_type(RenderRoot, out.v)
    ELSE <<>>

\* The call is handed a list without elements.
EmptyArgumentList == Called("render_fn_decl") /\ call.decl.inputs = <<>>

EmptyParenthesized ==
    /\ Called("render_generic_args")
    /\ call.args.t = "Parenthesized"
    /\ call.args.inputs = <<>>

EmptyTuple ==
    /\ Called("render_type")
    /\ call.ty.t = "Tuple"
    /\ call.ty.types = <<>>

EmptyAngleBracketed ==
    /\ Called("render_generic_args")
    /\ call.args.t = "AngleBracketed"
    /\ call.args.args = <<>>
    /\ call.args.bindings = <<>>

EmptyBounds == Called("render_generic_bounds") /\ call.bounds = <<>>

\* C19: without elements, a function argument list, a parenthesized
\* generic-argument list and a tuple are rendered as `(` `)` (a return type
\* follows the first two), and an angle-bracketed generic-argument list and
\* a bound list are rendered as no token at all.
Thm_C19 ==
    /\ (pc # "call" /\ (\/ EmptyArgumentList \/ EmptyParenthesized
                        \/ EmptyTuple \/ EmptyAngleBracketed
                        \/ EmptyBounds))
         => pc = "returned"
    /\ (pc = "returned" /\ EmptyArgumentList)
         => output = Parens \o ReturnTokens(call.decl.output)
    /\ (pc = "returned" /\ EmptyParenthesized)
         => output = Parens \o ReturnTokens(call.args.output)
    /\ (pc = "returned" /\ EmptyTuple) => output = Parens
    /\ (pc = "returned" /\ EmptyAngleBracketed) => output = <<>>
    /\ (pc = "returned" /\ EmptyBounds) => output = <<>>

Wit_C19 ==
    /\ pc = "returned"
    /\ EmptyParenthesized
    /\ call.args.output = None
    /\ output = Parens

\* C20: render_where_predicates returns no token for an empty list, and
\* for any other list Whitespace, Keyword("where"), Whitespace and then the
\* predicates as rendered, `, ` between each two and nothing after the
\* last.
Thm_C20 ==
    (Called("render_where_predicates") /\ pc = "returned") =>
        output =
          IF call.where_predicates = <<>> THEN <<>>
          ELSE <<ws, Token("Keyword", "where"), ws>>
                 \o JoinTokens([i \in 1..Len(call.where_predicates) |->
                                   render_where_predicate(
                                       RenderRoot,
                                       call.where_predicates[i])],
                               CommaSpace)

Wit_C20 ==
    /\ Called("render_where_predicates")
    /\ pc = "returned"
    /\ call.where_predicates =
         << BoundPredicate(Generic("T"), <<CloneBound>>, <<>>),
            RegionPredicate("'a", <<Outlives("'b")>>) >>
    /\ output =
         << ws, Token("Keyword", "where"), ws, Token("Generic", "T"),
            Token("Symbol", ":"), ws, Token("Type", "Clone"),
            Token("Symbol", ","), ws, Token("Lifetime", "'a") >>

(***************************************************************************)
(* Higher-rank trait bounds.                                               *)
(***************************************************************************)

\* `for`, the rendered parameters params as `<p1, p2, ...>`, one Whitespace.
ForParams(params) ==
    <<Token("Keyword", "for"), Token("Symbol", "<")>>
      \o JoinTokens([i \in 1..Len(params) |->
                        render_generic_param_def(RenderRoot, params[i])],
                    CommaSpace)
      \o <<Token("Symbol", ">"), ws>>

\* C21, as claimed: render_higher_rank_trait_bounds returns no token for an
\* empty parameter list, and for every other list `for`, the parameters in
\* angle brackets, and one Whitespace.
Cex_C21 ==
    (Called("render_higher_rank_trait_bounds") /\ pc # "call") =>
        /\ pc = "returned"
        /\ output = IF call.generic_params = <<>> THEN <<>>
                    ELSE ForParams(call.generic_params)

\* C21, amended: render_higher_rank_trait_bounds returns no token for an
\* empty parameter list, and for every other list `for`, the parameters
\* that are not synthetic type parameters in angle brackets (no bracket at
\* all when none is left), and one Whitespace.
Thm_C21 ==
    (Called("render_higher_rank_trait_bounds") /\ pc # "call") =>
        LET kept == WithoutSynthetic(call.generic_params)
        IN  /\ pc = "returned"
            /\ output =
                 IF call.generic_params = <<>> THEN <<>>
                 ELSE IF kept = <<>> THEN <<Token("Keyword", "for"), ws>>
                 ELSE ForParams(kept)

Wit_C21 ==
    /\ Called("render_higher_rank_trait_bounds")
    /\ pc = "returned"
    /\ call.generic_params = << TypeParam("impl X", <<>>, TRUE),
                                LifetimeParam("'a", <<>>) >>
    /\ output = << Token("Keyword", "for"), Token("Symbol", "<"),
                   Token("Lifetime", "'a"), Token("Symbol", ">"), ws >>

(***************************************************************************)
(* Paths.                                                                  *)
(***************************************************************************)

\* The tag of the token of a path segment, by the variant of its item.
SegmentTag(inner) ==
    IF inner \in {"Function", "Method"} THEN "Function"
    ELSE IF inner \in {"Trait", "Struct", "Union", "Enum", "Typedef"}
         THEN "Type"
    ELSE "Identifier"

\* C22: render_path returns no token for a path without segments and
\* 2n - 1 tokens for a path of n segments: at the odd positions the names
\* of the segments in order, as a Function token for a function or
\* method, a Type token for a trait, struct, union, enum or type alias and
\* an Identifier token otherwise; at the even positions Symbol("::"), so
\* none leads and none trails.
Thm_C22 ==
    (Called("render_path") /\ pc # "call") =>
        LET n == Len(call.path)
        IN  /\ pc = "returned"
            /\ Len(output) = IF n = 0 THEN 0 ELSE 2 * n - 1
            /\ \A i \in 1..n :
                  output[2 * i - 1] = Token(SegmentTag(call.path[i].inner),
                                            call.path[i].name)
            /\ \A i \in 1..(n - 1) : output[2 * i] = Token("Symbol", "::")

Wit_C22 ==
    /\ Called("render_path")
    /\ pc = "returned"
    /\ call.path = <<Segment("Module", "b"), Segment("Method", "a")>>
    /\ output = << Token("Identifier", "b"), Token("Symbol", "::"),
                   Token("Function", "a") >>

(***************************************************************************)
(* Proc macros.                                                            *)
(***************************************************************************)

\* `pub proc macro <path>`
PubProcMacro(path) ==
    << Token("Qualifier", "pub"), ws, Token("Kind", "proc"), ws,
       Token("Kind", "macro"), ws >> \o render_path(path)

\* The invocation of the macro name, by the kind of the macro.
Invocation(macro_kind, name) ==
    CASE macro_kind = "Bang" -> <<name, Token("Symbol", "!()")>>
      [] macro_kind = "Attr" ->
           <<Token("Symbol", "#["), name, Token("Symbol", "]")>>
      [] macro_kind = "Derive" ->
           <<Token("Symbol", "#[derive("), name, Token("Symbol", ")]")>>

\* C23: for a proc-macro item token_stream returns `pub proc macro <path>`
\* without its last token, then the invocation of the macro's name for
\* the kind of the macro; the token left out is the token path rendering
\* wrote for the last segment of the path, never a separator, a
\* Whitespace or a Kind token.
Cex_C23 ==
    (/\ Called("token_stream")
     /\ call.item.inner.t = "ProcMacro"
     /\ pc # "call") =>
        LET path == call.item.path
            full == PubProcMacro(path)
            name == Token("Identifier",
                          IF call.item.name.some THEN call.item.name.v
                          ELSE "")
        IN  /\ pc = "returned"
            /\ output = SubSeq(full, 1, Len(full) - 1)
                          \o Invocation(call.item.inner.kind, name)
            /\ path # <<>>
            /\ full[Len(full)] =
                  Token(SegmentTag(path[Len(path)].inner),
                        path[Len(path)].name)
            /\ full[Len(full)].tag \notin {"Symbol", "Whitespace", "Kind"}

(***************************************************************************)
(* Two calls of between side by side.  Each call owns its arguments, its   *)
(* two stacks and its three output vectors; a step is one statement of one *)
(* of the calls, and the steps of the two calls interleave in any order.   *)
(***************************************************************************)

\* The calls running side by side.
Callers == {1, 2}

\* The number of items one of these calls is given, old and new together.
MaxPairItems == 2

\* The items the arguments of each call are drawn from: two items on one
\* path for the first call, two items on different paths for the second.
PairItems ==
    << { PublicItem(Path1, TokensA), PublicItem(Path1, TokensC) },
       { PublicItem(Path1, TokensA), PublicItem(Path1_2, TokensA) } >>

PairVecs(i) == UNION { [1..n -> PairItems[i]] : n \in 0..MaxPairItems }

\* The locals of a call that has not run a statement yet.
Invoked(old, new) ==
    [pc |-> "sort", old |-> old, new |-> new,
     st |-> [os |-> old, ns |-> new, removed |-> <<>>, changed |-> <<>>,
             added |-> <<>>, dropped |-> <<>>]]

\* The calls caller i can make.
Invocations(i) ==
    { Invoked(p[1], p[2]) :
        p \in { q \in PairVecs(i) \X PairVecs(i) :
                  Len(q[1]) + Len(q[2]) <= MaxPairItems } }

\* The outputs of call i are written to every call.
StoreLocals_Shared(i, pc_, st) ==
    [j \in DOMAIN invocations |->
        IF j = i THEN [invocations[j] EXCEPT !.pc = pc_, !.st = st]
        ELSE [invocations[j] EXCEPT !.st.removed = st.removed,
                                    !.st.changed = st.changed,
                                    !.st.added = st.added]]

\* `let mut removed`, `let mut changed`, `let mut added` and the two
\* sorted vectors are locals of the call: a statement of call i writes the
\* locals of call i.
StoreLocals(i, pc_, st) ==
    [invocations EXCEPT ![i] = [@ EXCEPT !.pc = pc_, !.st = st]]

InitConcurrent ==
    /\ invocations \in { <<first, second>> : first \in Invocations(1),
                                              second \in Invocations(2) }
    /\ old_sorted = <<>>
    /\ new_sorted = <<>>
    /\ removed = <<>>
    /\ changed = <<>>
    /\ added = <<>>
    /\ dropped = <<>>
    /\ old_items = BagOf(<<>>)
    /\ new_items = BagOf(<<>>)
    /\ pc = "concurrent"
    /\ iterations = 0
    /\ call = NoCall
    /\ output = <<>>

\* The variables of the call followed alone.
AloneIdle ==
    UNCHANGED <<old_sorted, new_sorted, removed, changed, added, dropped,
                old_items, new_items, pc, iterations, call, output>>

ConcurrentSortInputs ==
    \E i \in DOMAIN invocations :
        /\ invocations[i].pc = "sort"
        /\ invocations' =
             StoreLocals(i, "loop",
                         [invocations[i].st EXCEPT
                            !.os = SortedInput(invocations[i].st.os),
                            !.ns = SortedInput(invocations[i].st.ns)])
        /\ AloneIdle

ConcurrentLoopBody ==
    \E i \in DOMAIN invocations :
        /\ invocations[i].pc = "loop"
        /\ MatchArm(invocations[i].st.os, invocations[i].st.ns) # "Break"
        /\ invocations' = StoreLocals(i, "loop", LoopBody(invocations[i].st))
        /\ AloneIdle

ConcurrentBreak ==
    \E i \in DOMAIN invocations :
        /\ invocations[i].pc = "loop"
        /\ MatchArm(invocations[i].st.os, invocations[i].st.ns) = "Break"
        /\ invocations' = StoreLocals(i, "sort_outputs", invocations[i].st)
        /\ AloneIdle

ConcurrentSortOutputs ==
    \E i \in DOMAIN invocations :
        /\ invocations[i].pc = "sort_outputs"
        /\ invocations' =
             StoreLocals(i, "done",
                         [invocations[i].st EXCEPT
                            !.removed = SortedOutput(@),
                            !.changed = SortedChangedOutput(@),
                            !.added = SortedOutput(@)])
        /\ AloneIdle

NextConcurrent ==
    \/ ConcurrentSortInputs
    \/ ConcurrentLoopBody
    \/ ConcurrentBreak
    \/ ConcurrentSortOutputs

SpecConcurrent == InitConcurrent /\ [][NextConcurrent]_vars

\* What call i returns.
ResultOf(i) ==
    [removed |-> invocations[i].st.removed,
     changed |-> invocations[i].st.changed,
     added   |-> invocations[i].st.added]

\* C24: two calls of between on the pairs (old1, new1) and (old2, new2),
\* their statements interleaved in any order, return what each returns
\* when it runs alone; and a statement of one call leaves the stacks and
\* the output vectors of the other call as they are.
Thm_C24 ==
    [][\A i \in DOMAIN invocations :
          /\ invocations'[i].pc = "done" =>
                ResultOf(i)' = between(invocations[i].old, invocations[i].new)
          /\ invocations'[i] # invocations[i] =>
                \A j \in DOMAIN invocations \ {i} :
                    invocations'[j] = invocations[j]]_vars

Wit_C24 ==
    /\ invocations # <<>>
    /\ \A i \in DOMAIN invocations : invocations[i].pc = "done"
    /\ invocations[1].old # invocations[2].old
    /\ invocations[1].new # invocations[2].new
    /\ ResultOf(1).changed # <<>>
    /\ ResultOf(2).added # <<>>
    /\ ResultOf(2).removed # <<>>

(***************************************************************************)
(* The push-back steps.                                                    *)
(***************************************************************************)

\* An iteration starts with both stacks non-empty and tops on different
\* paths that compare as cmp.
TopsCompare(cmp) ==
    /\ pc = "loop"
    /\ old_sorted # <<>>
    /\ new_sorted # <<>>
    /\ Top(old_sorted).path # Top(new_sorted).path
    /\ CmpItem(Top(old_sorted), Top(new_sorted)) = cmp

\* C25: an iteration that finds both stacks non-empty, the tops on
\* different paths and the old top less than the new top appends the new
\* top to added and leaves the old stack, removed and changed as they
\* were; with the old top greater than the new top it appends the old top
\* to removed and leaves the new stack, added and changed as they were.
Thm_C25 ==
    [][/\ (TopsCompare("Less") /\ iterations' = iterations + 1) =>
             /\ added' = Append(added, Top(new_sorted))
             /\ old_sorted' = old_sorted
             /\ removed' = removed
             /\ changed' = changed
       /\ (TopsCompare("Greater") /\ iterations' = iterations + 1) =>
             /\ removed' = Append(removed, Top(old_sorted))
             /\ new_sorted' = new_sorted
             /\ added' = added
             /\ changed' = changed]_vars

\* Two iterations, one of each kind, have run: both stacks still hold an
\* item, one item was added and one removed.
Wit_C25 ==
    /\ pc = "loop"
    /\ iterations = 2
    /\ old_sorted # <<>>
    /\ new_sorted # <<>>
    /\ Len(added) = 1
    /\ Len(removed) = 1
    /\ changed = <<>>
    /\ dropped = <<>>

(***************************************************************************)
(* render_sequence on its own.                                             *)
(***************************************************************************)

\* One of the elements rendered a token.
SomeRendered(rendered) == \E i \in DOMAIN rendered : rendered[i] # <<>>

NamePartToken(parts, i) ==
    IF i = 1 /\ parts[1] = "$crate" THEN Token("Identifier", "$crate")
    ELSE IF i = Len(parts) THEN Token("Type", parts[i])
    ELSE Token("Identifier", parts[i])

\* What follows the name: the generic arguments, then ` + ` and the bounds.
AfterName(ty) ==
    (IF ty.args.some THEN render_generic_args(RenderRoot, ty.args.v)
     ELSE <<>>)
      \o (IF ty.param_names # <<>>
          THEN << ws, Token("Symbol", "+"), ws >>
                 \o render_generic_bounds(RenderRoot, ty.param_names)
          ELSE <<>>)

\* C27: render_type on a resolved path with a non-empty name of k parts
\* between `::` starts with 2k - 1 tokens, the parts at the odd positions
\* and Symbol("::") at the even ones; the last part is a Type token and
\* every earlier part an Identifier token, except that a first part
\* `$crate` is an Identifier token also when it is the last part; the
\* generic arguments and the bounds follow these tokens.
Thm_C27 ==
    (/\ Called("render_type")
     /\ call.ty.t = "ResolvedPath"
     /\ call.ty.name # ""
     /\ pc # "call") =>
        LET parts == Split(call.ty.name)
            k == Len(parts)
        IN  /\ pc = "returned"
            /\ Len(output) >= 2 * k - 1
            /\ \A i \in 1..k : output[2 * i - 1] = NamePartToken(parts, i)
            /\ \A i \in 1..(k - 1) : output[2 * i] = Token("Symbol", "::")
            /\ SubSeq(output, 2 * k, Len(output)) = AfterName(call.ty)

Wit_C27 ==
    /\ Called("render_type")
    /\ pc = "returned"
    /\ call.ty.t = "ResolvedPath"
    /\ call.ty.name = "name::$crate"
    /\ call.ty.args.some
    /\ call.ty.param_names # <<>>
    /\ SubSeq(output, 1, 4) =
         << Token("Identifier", "name"), Token("Symbol", "::"),
            Token("Type", "$crate"), Token("Symbol", "<") >>

(***************************************************************************)
(* Paths on both sides.                                                    *)
(***************************************************************************)

\* The paths of the items of a vector.
VecPaths(v) == { v[i].path : i \in DOMAIN v }

\* The paths of the pairs of a vector of pairs.
PairPaths(pairs) == { pairs[i].old.path : i \in DOMAIN pairs }

IsPrefixOf(v, w) == Len(v) <= Len(w) /\ SubSeq(w, 1, Len(v)) = v

\* The top of the stack is not less than any item of the stack.
TopIsGreatest(v) ==
    \A i \in DOMAIN v : CmpItem(Top(v), v[i]) # "Less"

\* C29: at the start of every loop iteration old_sorted and new_sorted are
\* in ascending order and each is a prefix of its input as sorted at the
\* start, so the item popped is the greatest one left and an item pushed
\* back is at the position it was popped from.
Thm_C29 ==
    pc = "loop" =>
        /\ IsSortedItems(old_sorted)
        /\ IsSortedItems(new_sorted)
        /\ IsPrefixOf(old_sorted, SortedInput(VecOf(old_items)))
        /\ IsPrefixOf(new_sorted, SortedInput(VecOf(new_items)))
        /\ TopIsGreatest(old_sorted)
        /\ TopIsGreatest(new_sorted)

\* An item of the old stack was pushed back, and both stacks still hold
\* two items or more.
Wit_C29 ==
    /\ pc = "loop"
    /\ iterations >= 1
    /\ Len(old_sorted) = BagSize(old_items)
    /\ Len(old_sorted) >= 2
    /\ Len(new_sorted) >= 2
    /\ added # <<>>

(***************************************************************************)
(* The arm of Abi::Rust.                                                   *)
(***************************************************************************)

\* A function or a method is rendered: by render_function itself or by
\* token_stream.
RendersFunction ==
    \/ Called("render_function")
    \/ Called("token_stream") /\ call.item.inner.t \in {"Function", "Method"}

\* The header of the function rendered.
HeaderRendered ==
    IF Called("render_function") THEN call.header
    ELSE call.item.inner.header

\* C30: render_function never runs the unreachable!() arm of its match on
\* header.abi, whatever the header: the call returns, the token of the
\* panic is not among the tokens of the qualifiers, and the Rust ABI
\* writes no qualifier.
Thm_C30 ==
    (RendersFunction /\ pc # "call") =>
        /\ pc = "returned"
        /\ \A i \in DOMAIN output : output[i] # Unreachable
        /\ ~Panicked(header_qualifiers(HeaderRendered))
        /\ HeaderRendered.abi = Abi("Rust") =>
              \A i \in DOMAIN output : output[i].tag = "Qualifier" =>
                  output[i].text \in {"pub", "unsafe", "const", "async"}

Wit_C30 ==
    /\ Called("render_function")
    /\ pc = "returned"
    /\ call.header = Header(TRUE, FALSE, TRUE, Abi("Rust"))
    /\ call.name = <<function("f")>>
    /\ SubSeq(output, 1, 9) =
         << Token("Qualifier", "pub"), ws, Token("Qualifier", "unsafe"), ws,
            Token("Qualifier", "async"), ws, Token("Kind", "fn"), ws,
            Token("Function", "f") >>

====
